---- MODULE Spec2Model ----
(***************************************************************************)
(* Model of the two webhook adapters of convomail:                         *)
(*   - TwilioSMSConvo.handlePost  (SMS inbound webhook)                    *)
(*   - WebhookMailgunHandler      (email reply / thread root)              *)
(* Text that the code inspects character by character (subjects, reply     *)
(* markup, provider response bodies) is a sequence of one-character        *)
(* strings.                                                                *)
(***************************************************************************)
EXTENDS Integers, Sequences, FiniteSets, TLC

\* ------------------------------------------------------------------ bounds
MaxReplyLen == 2
MaxParts == 3
MaxRefs == 2

\* ------------------------------------------------------- generic helpers
RECURSIVE Flatten(_)
Flatten(ss) == IF ss = <<>> THEN <<>> ELSE Head(ss) \o Flatten(Tail(ss))

SeqsUpTo(S, n) == UNION {[1..k -> S] : k \in 0..n}

\* String.prototype.startsWith on character sequences
StartsWith(s, p) == Len(s) >= Len(p) /\ SubSeq(s, 1, Len(p)) = p

\* String.prototype.includes on character sequences
Includes(s, p) == \E i \in 1..(Len(s) - Len(p) + 1) : SubSeq(s, i, i + Len(p) - 1) = p

\* JavaScript values that are not text
Undefined == [t |-> "undefined"]
Str(v) == [t |-> "string", v |-> v]

\* =====================================================================
\*  SMS adapter: TwilioSMSConvo
\* =====================================================================
VARIABLES handlerUrl, request, pc, twilioSignature, params, success, data,
          validRequest, handlerCalls, handlerArgs, handlerResult, response, trace

smsVars == <<handlerUrl, request, pc, twilioSignature, params, success, data,
             validRequest, handlerCalls, handlerArgs, handlerResult, response, trace>>

\* credentials held by the adapter instance
AuthToken == "auth-token"
OtherToken == "other-token"
RequestUrl == "https://internal/sms"
PublicUrl == "https://public/sms"

RequiredFields == {"MessageSid", "AccountSid", "From", "To", "Body"}

\* what a form entry can be after Object.fromEntries(formData)
Absent == [t |-> "absent"]
FileEntry == [t |-> "file"]
FieldStrings == {"a", "b"}
FieldValues == {Absent, FileEntry} \cup {Str(v) : v \in FieldStrings}

\* z.string()
IsZString(v) == v.t = "string"

\* a schema that requires only the three fields the handler receives
SchemaSuccessDestructuredOnly(p) == \A f \in {"MessageSid", "From", "Body"} : IsZString(p[f])

\* TwilioWebhookSchema.safeParse(params).success: the five required keys are
\* strings (the optional keys are not modelled: they never fail when absent)
SchemaSuccess(p) == \A f \in RequiredFields : IsZString(p[f])

\* The provider signature over (url, sorted params) keyed by the auth token,
\* as a symbolic MAC: equal exactly when token, url and params are equal.
Signature(token, url, p) == [t |-> "sig", token |-> token, url |-> url, params |-> p]
NoHeader == [t |-> "null"]
EmptyHeader == [t |-> "empty"]

\* a verification that forgets the auth token
validateRequestAnyToken(token, sig, url, p) == sig.t = "sig" /\ sig.url = url /\ sig.params = p

\* validateRequest(authToken, twilioSignature, url, params)
validateRequest(token, sig, url, p) == sig = Signature(token, url, p)

\* a presence test written as `=== null`
FalsyNullOnly(sig) == sig.t = "null"

\* `!twilioSignature`: null and the empty string are both falsy
Falsy(sig) == sig.t \in {"null", "empty"}

Tamper(p) == [p EXCEPT !["Body"] = IF p["Body"] = Str("a") THEN Str("b") ELSE Str("a")]

SigHeaders(p) ==
  {NoHeader, EmptyHeader,
   Signature(AuthToken, RequestUrl, p), Signature(AuthToken, PublicUrl, p),
   Signature(OtherToken, RequestUrl, p), Signature(OtherToken, PublicUrl, p),
   Signature(AuthToken, RequestUrl, Tamper(p)), Signature(AuthToken, PublicUrl, Tamper(p))}

\* ----- reply markup (Twilio.twiml.MessagingResponse) -----
ReplyAlphabet == {"H", "&", "<"}
ReplyTexts == SeqsUpTo(ReplyAlphabet, MaxReplyLen)

XmlEscapeChar(c) ==
  CASE c = "&" -> <<"&", "a", "m", "p", ";">>
    [] c = "<" -> <<"&", "l", "t", ";">>
    [] c = ">" -> <<"&", "g", "t", ";">>
    [] OTHER -> <<c>>

XmlEscape(s) == Flatten([i \in 1..Len(s) |-> XmlEscapeChar(s[i])])

\* twiml.message(text); twiml.toString()
TwimlToString(text) ==
  <<"<?xml?>", "<Response>">> \o
  (IF text = <<>> THEN <<"<Message/>">>
   ELSE <<"<Message>">> \o XmlEscape(text) \o <<"</Message>">>) \o
  <<"</Response>">>

\* `response ?? ""`
NullishToEmpty(r) == IF r = Undefined THEN <<>> ELSE r.v

\* safeParse(params).data: the string fields of the form
ParsedData(p) == [f \in RequiredFields |-> IF IsZString(p[f]) THEN p[f].v ELSE "undefined"]

\* a local that is still unassigned, and the two values of a boolean local
Unset == "unset"
Bool(b) == IF b THEN "true" ELSE "false"
NoParams == [f \in RequiredFields |-> Absent]
NoData == [f \in RequiredFields |-> ""]
NoResponse == [status |-> 0]
NoArgs == [t |-> "none"]

Stages == <<"AwaitingSignature", "AwaitingSchema", "AwaitingSignatureVerification",
            "HandlerInvocation", "ReplyFormatting">>

SmsInit ==
  /\ handlerUrl \in {Undefined, Str(PublicUrl)}
  /\ \E p \in [RequiredFields -> FieldValues] :
       \E s \in SigHeaders(p), b \in BOOLEAN :
         request = [sig |-> s, parseable |-> b, fields |-> p, url |-> RequestUrl]
  /\ pc = "AwaitingSignature"
  /\ twilioSignature = NoHeader
  /\ params = NoParams
  /\ success = Unset
  /\ data = NoData
  /\ validRequest = Unset
  /\ handlerCalls = 0
  /\ handlerArgs = NoArgs
  /\ handlerResult = Undefined
  /\ response = NoResponse
  /\ trace = <<"AwaitingSignature">>

\* lines 75-80: read the header, reject when it is falsy
CheckSignatureHeader ==
  /\ pc = "AwaitingSignature"
  /\ twilioSignature' = request.sig
  /\ IF Falsy(request.sig)
       THEN /\ response' = [status |-> 401, contentType |-> "text/plain",
                            body |-> "No Twilio signature found"]
            /\ pc' = "Returned"
            /\ trace' = trace
       ELSE /\ response' = response
            /\ pc' = "AwaitingSchema"
            /\ trace' = Append(trace, "AwaitingSchema")
  /\ UNCHANGED <<handlerUrl, request, params, success, data, validRequest,
                 handlerCalls, handlerArgs, handlerResult>>

\* lines 82-92: await request.formData() (rejects when the body is not a
\* form), then the schema check
ParseAndValidateSchema ==
  /\ pc = "AwaitingSchema"
  /\ IF ~request.parseable
       THEN /\ pc' = "Thrown"
            /\ UNCHANGED <<params, success, data, response, trace>>
       ELSE /\ params' = request.fields
            /\ success' = Bool(SchemaSuccess(request.fields))
            /\ IF SchemaSuccess(request.fields)
                 THEN /\ data' = ParsedData(request.fields)
                      /\ pc' = "AwaitingSignatureVerification"
                      /\ trace' = Append(trace, "AwaitingSignatureVerification")
                      /\ response' = response
                 ELSE /\ data' = data
                      /\ pc' = "Returned"
                      /\ trace' = trace
                      /\ response' = [status |-> 400, contentType |-> "text/plain",
                                      body |-> "Invalid Twilio webhook"]
  /\ UNCHANGED <<handlerUrl, request, twilioSignature, validRequest,
                 handlerCalls, handlerArgs, handlerResult>>

\* `this.handlerUrl ?? request.url`
CallbackUrl == IF handlerUrl = Undefined THEN request.url ELSE handlerUrl.v

\* lines 94-104
VerifySignature ==
  /\ pc = "AwaitingSignatureVerification"
  /\ validRequest' = Bool(validateRequest(AuthToken, twilioSignature, CallbackUrl, params))
  /\ IF validateRequest(AuthToken, twilioSignature, CallbackUrl, params)
       THEN /\ pc' = "HandlerInvocation"
            /\ trace' = Append(trace, "HandlerInvocation")
            /\ response' = response
       ELSE /\ pc' = "Returned"
            /\ trace' = trace
            /\ response' = [status |-> 401, contentType |-> "text/plain",
                            body |-> "Invalid Twilio webhook"]
  /\ UNCHANGED <<handlerUrl, request, twilioSignature, params, success, data,
                 handlerCalls, handlerArgs, handlerResult>>

\* a context with the account id in place of the message id
MessageContextAccountSid(d) == [message |-> d["Body"], from |-> d["From"], messageId |-> d["AccountSid"]]

\* the context object handed to the user handler (lines 106-110)
MessageContext(d) == [message |-> d["Body"], from |-> d["From"], messageId |-> d["MessageSid"]]

\* lines 106-110: await this.handleIncoming(...); the handler resolves with a
\* string, resolves with undefined, or rejects
InvokeHandler ==
  /\ pc = "HandlerInvocation"
  /\ handlerCalls' = handlerCalls + 1
  /\ handlerArgs' = MessageContext(data)
  /\ \/ /\ \E r \in {Undefined} \cup {Str(t) : t \in ReplyTexts} : handlerResult' = r
        /\ pc' = "ReplyFormatting"
        /\ trace' = Append(trace, "ReplyFormatting")
     \/ /\ handlerResult' = handlerResult
        /\ pc' = "Thrown"
        /\ trace' = trace
  /\ UNCHANGED <<handlerUrl, request, twilioSignature, params, success, data,
                 validRequest, response>>

\* lines 112-119
FormatReply ==
  /\ pc = "ReplyFormatting"
  /\ response' = [status |-> 200, contentType |-> "text/xml",
                  body |-> TwimlToString(NullishToEmpty(handlerResult))]
  /\ pc' = "Returned"
  /\ UNCHANGED <<handlerUrl, request, twilioSignature, params, success, data,
                 validRequest, handlerCalls, handlerArgs, handlerResult, trace>>

\* =====================================================================
\*  Email adapter: WebhookMailgunHandler
\* =====================================================================
VARIABLES webhookData, sender, replyTo, mpc, form, fetchCalls, fetchResponse,
          replyOutcome, rootId, followUp

mailVars == <<webhookData, sender, replyTo, mpc, form, fetchCalls, fetchResponse,
              replyOutcome, rootId, followUp>>

vars == <<handlerUrl, request, pc, twilioSignature, params, success, data,
          validRequest, handlerCalls, handlerArgs, handlerResult, response, trace,
          webhookData, sender, replyTo, mpc, form, fetchCalls, fetchResponse,
          replyOutcome, rootId, followUp>>

RePrefix == <<"R", "e", ":", " ">>

\* inbound subjects: concatenations of at most MaxParts fragments
SubjectFragments == {<<"R", "e", ":", " ">>, <<"r", "e", ":", " ">>, <<"R", "e", ":">>}
Subjects == {Flatten(ps) : ps \in SeqsUpTo(SubjectFragments, MaxParts)}

MessageIds == {"id-1", "id-2"}
OwnMessageId == "id-0"
Array(v) == [t |-> "array", v |-> v]
ReferencesValues == {Undefined} \cup {Array(r) : r \in SeqsUpTo(MessageIds, MaxRefs)}

SenderValues == {Undefined, [t |-> "object", name |-> "Bot", email |-> "bot@example.com"]}
ReplyToValues == {Undefined, Str(""), Str("reply@example.com")}

\* JavaScript truthiness of the values the handler tests with `!`
Truthy(v) ==
  CASE v.t = "undefined" -> FALSE
    [] v.t = "string" -> v.v # ""
    [] OTHER -> TRUE

\* a prefix test on "Re:" without the trailing space
determineReplySubjectThreeChars(subject) ==
  IF StartsWith(subject, <<"R", "e", ":">>) THEN subject ELSE RePrefix \o subject

\* a transform that always prepends
determineReplySubjectAlways(subject) == RePrefix \o subject

\* lines 56-63
determineReplySubject(subject) ==
  IF StartsWith(subject, RePrefix) THEN subject ELSE RePrefix \o subject

\* lines 110-116; reading index 0 of an empty array yields undefined
getThreadRootMessageId(wd) ==
  IF ~Truthy(wd.References) THEN Str(wd.MessageId)
  ELSE IF Len(wd.References.v) = 0 THEN Undefined
  ELSE Str(wd.References.v[1])

\* ----- provider responses -----
Quote == "\""
ProviderBodies ==
  { <<"{", Quote, "i", "d", Quote, ":", Quote, "m", Quote, "}">>,
    <<"{", Quote, "e", Quote, ":", Quote, "x", Quote, "}">>,
    <<Quote, "F", Quote>>,
    <<"7">>,
    <<"n", "u", "l", "l">>,
    <<"F", "o", "r", "b", "i", "d", "d", "e", "n">> }
ProviderStatuses == {200, 400, 500}
NetworkFailure == [t |-> "networkFailure"]
FetchResults ==
  {NetworkFailure} \cup
  {[t |-> "response", status |-> st, body |-> b] : st \in ProviderStatuses, b \in ProviderBodies}

\* response.ok
Ok(status) == status >= 200 /\ status <= 299

IdKeyPrefix == <<"{", Quote, "i", "d", Quote, ":", Quote>>
NotJson == [t |-> "notjson"]

\* response.json() over the bodies above: the JSON value of the text, or
\* NotJson when the text is not JSON (the promise rejects with a SyntaxError)
JsonParse(raw) ==
  CASE raw = <<"n", "u", "l", "l">> -> [t |-> "null"]
    [] Len(raw) >= 2 /\ raw[1] = Quote /\ raw[Len(raw)] = Quote ->
         Str(SubSeq(raw, 2, Len(raw) - 1))
    [] Len(raw) >= 1 /\ raw[1] \in {"0", "1", "2", "3", "4", "5", "6", "7", "8", "9"} ->
         [t |-> "number", digits |-> raw]
    [] Len(raw) >= 2 /\ raw[1] = "{" /\ raw[Len(raw)] = "}" ->
         IF StartsWith(raw, IdKeyPrefix)
           THEN [t |-> "object", id |-> Str(SubSeq(raw, Len(IdKeyPrefix) + 1, Len(raw) - 2))]
           ELSE [t |-> "object", id |-> Undefined]
    [] OTHER -> NotJson

\* the text a template literal `${v}` produces for a JSON value
TemplateString(v) ==
  CASE v.t = "object" -> <<"[", "o", "b", "j", "e", "c", "t", " ", "O", "b", "j", "e", "c", "t", "]">>
    [] v.t = "string" -> v.v
    [] v.t = "number" -> v.digits
    [] v.t = "null" -> <<"n", "u", "l", "l">>

Error(msg) == [t |-> "error", message |-> msg]
Returned(v) == [t |-> "returned", value |-> v]
Pending == [t |-> "pending"]
NoForm == [t |-> "none"]
NoFetch == [t |-> "none"]

\* lines 98-99: the error thrown for a non-ok response
NotOkOutcome(body) ==
  IF JsonParse(body) = NotJson THEN Error(<<"SyntaxError">>)
  ELSE Error(<<"Failed to send email: ">> \o TemplateString(JsonParse(body)))

\* lines 102-103: `data.id` of the parsed response
OkOutcome(body) ==
  LET parsed == JsonParse(body) IN
  CASE parsed = NotJson -> Error(<<"SyntaxError">>)
    [] parsed.t = "null" -> Error(<<"TypeError">>)
    [] parsed.t = "object" -> Returned(parsed.id)
    [] OTHER -> Returned(Undefined)

\* a guard that forgets the reply-to check
ConfigErrorSenderOnly(s, r) ==
  IF ~Truthy(s) THEN <<"Sender is not set">> ELSE <<>>

\* lines 66-72: the message of the error thrown, or <<>> when both are set
ConfigError(s, r) ==
  IF ~Truthy(s) THEN <<"Sender is not set">>
  ELSE IF ~Truthy(r) THEN <<"Reply-To is not set">>
  ELSE <<>>

\* lines 74-85
BuildForm(wd, text) ==
  [t |-> "form",
   from |-> <<sender.name, " <", sender.email, ">">>,
   to |-> wd.From,
   subject |-> determineReplySubject(wd.Subject),
   text |-> text,
   replyTo |-> replyTo,
   inReplyTo |-> wd.MessageId,
   references |-> IF Truthy(wd.References) THEN wd.References ELSE Undefined]

\* state after `mailgun(webhookData, auth, reply)` (lines 24-31, 40-50)
MailInit ==
  /\ \E s \in Subjects, r \in ReferencesValues :
       webhookData = [Subject |-> s, From |-> "alice@example.com",
                      MessageId |-> OwnMessageId, References |-> r]
  /\ sender \in SenderValues
  /\ replyTo \in ReplyToValues
  /\ mpc = "idle"
  /\ form = NoForm
  /\ fetchCalls = 0
  /\ fetchResponse = NoFetch
  /\ replyOutcome = Pending
  /\ rootId = Pending
  /\ followUp = FALSE

\* reply(text), lines 65-96: up to and including the call of fetch
ReplyCall ==
  /\ mpc = "idle"
  /\ fetchResponse' = NoFetch
  /\ IF ConfigError(sender, replyTo) # <<>>
       THEN /\ replyOutcome' = Error(ConfigError(sender, replyTo))
            /\ form' = NoForm /\ fetchCalls' = 0 /\ mpc' = "idle"
       ELSE /\ form' = BuildForm(webhookData, "hello")
            /\ fetchCalls' = 1
            /\ replyOutcome' = Pending
            /\ mpc' = "awaitingFetch"
  /\ UNCHANGED <<webhookData, sender, replyTo, rootId, followUp>>

\* reply(text), lines 87-104: fetch settles and the call completes
FetchSettles ==
  /\ mpc = "awaitingFetch"
  /\ \E r \in FetchResults :
       /\ fetchResponse' = r
       /\ replyOutcome' =
            IF r = NetworkFailure THEN Error(<<"TypeError: fetch failed">>)
            ELSE IF ~Ok(r.status) THEN NotOkOutcome(r.body)
            ELSE OkOutcome(r.body)
  /\ mpc' = "idle"
  /\ UNCHANGED <<webhookData, sender, replyTo, form, fetchCalls, rootId, followUp>>

\* getThreadRootMessageId(), lines 110-116
GetThreadRootMessageId ==
  /\ mpc = "idle"
  /\ rootId = Pending
  /\ rootId' = Returned(getThreadRootMessageId(webhookData))
  /\ UNCHANGED <<webhookData, sender, replyTo, mpc, form, fetchCalls, fetchResponse,
                 replyOutcome, followUp>>

\* the conversation continues: the next inbound mail carries the subject of
\* the reply just sent, and a new handler is built for it (lines 24-31)
FollowUpMail ==
  /\ mpc = "idle"
  /\ ~followUp
  /\ form # NoForm
  /\ replyOutcome.t = "returned"
  /\ webhookData' = [webhookData EXCEPT !.Subject = form.subject]
  /\ followUp' = TRUE
  /\ form' = NoForm
  /\ fetchCalls' = 0
  /\ fetchResponse' = NoFetch
  /\ replyOutcome' = Pending
  /\ rootId' = Pending
  /\ UNCHANGED <<sender, replyTo, mpc>>

\* ------------------------------------------------------- specifications
SmsIdle ==
  /\ handlerUrl = Undefined
  /\ request = [sig |-> NoHeader, parseable |-> FALSE, fields |-> NoParams, url |-> RequestUrl]
  /\ pc = "Idle"
  /\ twilioSignature = NoHeader
  /\ params = NoParams
  /\ success = Unset
  /\ data = NoData
  /\ validRequest = Unset
  /\ handlerCalls = 0
  /\ handlerArgs = NoArgs
  /\ handlerResult = Undefined
  /\ response = NoResponse
  /\ trace = <<>>

MailIdle ==
  /\ webhookData = [Subject |-> <<>>, From |-> "alice@example.com",
                    MessageId |-> OwnMessageId, References |-> Undefined]
  /\ sender = Undefined
  /\ replyTo = Undefined
  /\ mpc = "off"
  /\ form = NoForm
  /\ fetchCalls = 0
  /\ fetchResponse = NoFetch
  /\ replyOutcome = Pending
  /\ rootId = Pending
  /\ followUp = FALSE

Init == SmsInit /\ MailIdle
Next ==
  \/ CheckSignatureHeader /\ UNCHANGED mailVars
  \/ ParseAndValidateSchema /\ UNCHANGED mailVars
  \/ VerifySignature /\ UNCHANGED mailVars
  \/ InvokeHandler /\ UNCHANGED mailVars
  \/ FormatReply /\ UNCHANGED mailVars
Spec == Init /\ [][Next]_vars

InitMail == SmsIdle /\ MailInit
NextMail ==
  \/ ReplyCall /\ UNCHANGED smsVars
  \/ FetchSettles /\ UNCHANGED smsVars
  \/ GetThreadRootMessageId /\ UNCHANGED smsVars
  \/ FollowUpMail /\ UNCHANGED smsVars
SpecMail == InitMail /\ [][NextMail]_vars

\* =====================================================================
\*  Properties of the SMS adapter (checked under Spec)
\* =====================================================================
Terminal == {"Returned", "Thrown"}

\* facts about the request itself, independent of the handler's locals
HeaderAbsentOrEmpty == request.sig \in {NoHeader, EmptyHeader}
HeaderNonEmpty == request.sig.t = "sig"
GenuineSignature ==
  request.sig = [t |-> "sig", token |-> AuthToken, url |-> CallbackUrl, params |-> request.fields]
SignatureInvalid == HeaderNonEmpty /\ ~GenuineSignature
AllRequiredAreStrings == \A f \in RequiredFields : request.fields[f].t = "string"
LacksRequiredField == \E f \in RequiredFields : request.fields[f] = Absent

\* C1: the user handler has been invoked only if, in this call, the signature
\* header was found, the form passed the schema and the signature verified.
C1_ChecksBeforeHandler ==
  (handlerCalls > 0 \/ pc \in {"HandlerInvocation", "ReplyFormatting"}) =>
     /\ twilioSignature.t = "sig" /\ success = "true" /\ validRequest = "true"
     /\ HeaderNonEmpty /\ request.parseable /\ AllRequiredAreStrings /\ GenuineSignature

C1_Witness == handlerCalls = 1 /\ pc = "Returned" /\ validRequest = "true"

\* C2 as stated: a request whose signature is missing or invalid is answered
\* 401 and never reaches the handler, whatever its body.
C2_Original ==
  (pc = "Returned" /\ (request.sig = NoHeader \/ SignatureInvalid)) =>
     response.status = 401 /\ handlerCalls = 0

\* C2 amended: a missing (or empty) signature header is answered 401 whatever
\* the body; a present but invalid signature is answered 401 when the body
\* passes the schema; in neither case is the handler invoked.
C2_Amended ==
  /\ (HeaderAbsentOrEmpty /\ pc \in Terminal) => (pc = "Returned" /\ response.status = 401)
  /\ (SignatureInvalid /\ request.parseable /\ AllRequiredAreStrings /\ pc \in Terminal) =>
        (pc = "Returned" /\ response.status = 401)
  /\ (HeaderAbsentOrEmpty \/ SignatureInvalid) =>
        (handlerCalls = 0 /\ pc \notin {"HandlerInvocation", "ReplyFormatting"})

C2_Witness ==
  /\ pc = "Returned" /\ SignatureInvalid /\ validRequest = "false"
  /\ response.status = 401 /\ handlerCalls = 0

\* C3 as stated: a request that carries a signature header and whose form
\* lacks a required field is answered 400, without handler and without
\* signature verification.
C3_Original ==
  (pc = "Returned" /\ request.sig # NoHeader /\ request.parseable /\ LacksRequiredField) =>
     response.status = 400 /\ handlerCalls = 0 /\ validRequest = Unset

\* C3 amended: the same for a request that carries a non-empty signature
\* header.
C3_Amended ==
  (HeaderNonEmpty /\ request.parseable /\ LacksRequiredField) =>
     /\ pc \in Terminal => (pc = "Returned" /\ response.status = 400)
     /\ handlerCalls = 0
     /\ validRequest = Unset
     /\ pc \notin {"AwaitingSignatureVerification", "HandlerInvocation", "ReplyFormatting"}

C3_Witness ==
  /\ pc = "Returned" /\ HeaderNonEmpty /\ LacksRequiredField /\ GenuineSignature
  /\ success = "false" /\ response.status = 400

\* C4: the stages are passed in their order without repetition, the handler
\* is invoked at most once, and a call that has ended has ended as Rejected
\* (400/401) or Replied (200).
C4_LinearAndAlwaysAnswered ==
  /\ Len(trace) <= Len(Stages) /\ trace = SubSeq(Stages, 1, Len(trace))
  /\ handlerCalls <= 1
  /\ pc \in Terminal => (pc = "Returned" /\ response.status \in {200, 400, 401})

\* ----- reading the reply document back, as the provider does -----
RECURSIVE XmlUnescape(_)
XmlUnescape(s) ==
  IF s = <<>> THEN <<>>
  ELSE IF StartsWith(s, <<"&", "a", "m", "p", ";">>) THEN <<"&">> \o XmlUnescape(SubSeq(s, 6, Len(s)))
  ELSE IF StartsWith(s, <<"&", "l", "t", ";">>) THEN <<"<">> \o XmlUnescape(SubSeq(s, 5, Len(s)))
  ELSE IF StartsWith(s, <<"&", "g", "t", ";">>) THEN <<">">> \o XmlUnescape(SubSeq(s, 5, Len(s)))
  ELSE <<Head(s)>> \o XmlUnescape(Tail(s))

MessageText(doc) ==
  IF doc[3] = "<Message/>" THEN <<>>
  ELSE XmlUnescape(SubSeq(doc, 4, Len(doc) - 2))

\* C5: the handler receives {message: Body, from: From, messageId: MessageSid}
\* of the request, and once it has returned the response is 200 text/xml whose
\* message text is the returned string, or empty for undefined.
C5_ContextAndReply ==
  /\ handlerCalls > 0 =>
       handlerArgs = [message |-> request.fields["Body"].v,
                      from |-> request.fields["From"].v,
                      messageId |-> request.fields["MessageSid"].v]
  /\ (pc = "Returned" /\ handlerCalls > 0) =>
       /\ response.status = 200
       /\ response.contentType = "text/xml"
       /\ MessageText(response.body) =
            (IF handlerResult.t = "undefined" THEN <<>> ELSE handlerResult.v)

C5_Witness ==
  /\ pc = "Returned" /\ handlerCalls = 1 /\ response.status = 200
  /\ handlerResult = Str(<<"H", "&">>)
  /\ request.fields["MessageSid"] # request.fields["AccountSid"]

\* =====================================================================
\*  Properties of the email adapter (checked under SpecMail)
\* =====================================================================
HasRePrefix(s) == Len(s) >= 4 /\ s[1] = "R" /\ s[2] = "e" /\ s[3] = ":" /\ s[4] = " "
AfterPrefix(s) == SubSeq(s, 5, Len(s))

\* C6: the reply subject is the original subject when that starts with the
\* exact prefix "Re: " and "Re: " followed by it otherwise; the subject of a
\* reply to a mail that carries a reply subject is that subject again.
C6_SubjectTransform ==
  form # NoForm =>
    /\ HasRePrefix(webhookData.Subject) => form.subject = webhookData.Subject
    /\ ~HasRePrefix(webhookData.Subject) =>
         form.subject = <<"R", "e", ":", " ">> \o webhookData.Subject
    /\ followUp => form.subject = webhookData.Subject

C6_Witness ==
  /\ followUp /\ form # NoForm
  /\ form.subject = <<"R", "e", ":", " ", "R", "e", ":", "r", "e", ":", " ">>

\* C7 as stated: the reply subject starts with "Re: " and what follows the
\* prefix does not start with "Re: ".
C7_Original ==
  form # NoForm => (HasRePrefix(form.subject) /\ ~HasRePrefix(AfterPrefix(form.subject)))

\* C7 amended: the reply subject starts with "Re: ", and what follows the
\* prefix starts with "Re: " only when the original subject already began
\* with "Re: Re: ".
C7_Amended ==
  form # NoForm =>
    /\ HasRePrefix(form.subject)
    /\ HasRePrefix(AfterPrefix(form.subject)) <=>
         (HasRePrefix(webhookData.Subject) /\ HasRePrefix(AfterPrefix(webhookData.Subject)))

C7_Witness ==
  /\ form # NoForm /\ ~followUp
  /\ webhookData.Subject = <<"R", "e", ":", " ", "r", "e", ":", " ">>
  /\ form.subject = webhookData.Subject

\* C8: without a sender or without a reply-to address a call of reply fails
\* and no request is issued.
C8_NoRequestWithoutConfig ==
  (sender = Undefined \/ replyTo \in {Undefined, Str("")}) =>
     /\ fetchCalls = 0 /\ mpc # "awaitingFetch" /\ form = NoForm /\ fetchResponse = NoFetch
     /\ replyOutcome # Pending => replyOutcome.t = "error"

C8_Witness ==
  /\ sender # Undefined /\ replyTo = Undefined
  /\ replyOutcome = Error(<<"Reply-To is not set">>) /\ fetchCalls = 0

\* C9: a configured reply issues exactly one POST; a non-2xx answer makes the
\* call fail with an error that contains the response body; a 2xx answer
\* makes it return the id of the parsed JSON.
C9_ErrorCarriesBody ==
  (fetchResponse # NoFetch /\ fetchResponse # NetworkFailure) =>
     /\ fetchCalls = 1
     /\ ~(fetchResponse.status \in 200..299) =>
          (replyOutcome.t = "error" /\ Includes(replyOutcome.message, fetchResponse.body))
     /\ (fetchResponse.status \in 200..299 /\ JsonParse(fetchResponse.body).t = "object") =>
          replyOutcome = Returned(JsonParse(fetchResponse.body).id)

\* C10: the thread root is the first reference when there are references and
\* the own Message-Id otherwise, and it is always a message id.
C10_ThreadRootDefined ==
  rootId # Pending =>
     /\ rootId.value.t = "string"
     /\ rootId.value.v \in MessageIds \cup {webhookData.MessageId}
     /\ webhookData.References = Undefined => rootId.value = Str(webhookData.MessageId)
     /\ (webhookData.References # Undefined /\ Len(webhookData.References.v) > 0) =>
          rootId.value = Str(webhookData.References.v[1])

====
